---- MODULE Spec2Model ----
(***************************************************************************)
(* modrinther: the manifest-driven download pipeline of src/main.rs.       *)
(*                                                                         *)
(* main() loads a Modrinth index, prepares the output directory, builds    *)
(* the summary text, drives download_file over index.files through         *)
(* buffer_unordered(5), and reports.  All futures of the stream are polled *)
(* by main's own task, so the code between two .await points of a future   *)
(* runs without interleaving; every action below is one such stretch.      *)
(***************************************************************************)
EXTENDS Integers, Sequences, FiniteSets, TLC

(***************************************************************************)
(* Bounds of the model and constants of the program.                       *)
(***************************************************************************)
\* buffer_unordered(5)
MaxConcurrency == 5
\* the manifests of the orchestration runs hold MaxConcurrency + Overflow files at most
Overflow == 1
\* in an orchestration run the server serves at most MaxServed files and
\* answers 404 for the others
MaxServed == 2
\* a response body has at most MaxChunks chunks
MaxChunks == 2

(***************************************************************************)
(* Paths.  A path is a sequence of components; "/" as first component      *)
(* makes it absolute, ".." is the parent directory.  A location is an      *)
(* absolute path without "..", as the operating system resolves it.        *)
(***************************************************************************)
\* base_dir.join(&pack_name), main.rs:89
OutputDir == << "home", "pack" >>

\* the file name of the summary, main.rs:219
SummaryName == "modpack_summary.txt"

IsAbsolute(p) == Len(p) > 0 /\ p[1] = "/"

RECURSIVE Walk(_, _)
\* the location reached from location loc by following the components of p
Walk(loc, p) ==
    IF p = << >> THEN loc
    ELSE IF p[1] = ".."
         THEN Walk(IF loc = << >> THEN loc ELSE SubSeq(loc, 1, Len(loc) - 1), Tail(p))
         ELSE Walk(Append(loc, p[1]), Tail(p))

\* Path::join: an absolute argument replaces the base
Join(base, p) == IF IsAbsolute(p) THEN p ELSE base \o p

\* the location a joined path names
Resolve(p) == IF IsAbsolute(p) THEN Walk(<< >>, Tail(p)) ELSE Walk(<< >>, p)

\* Path::parent: the path without its last component, "none" for a root or empty path
Parent(p) ==
    IF p = << >> \/ p = << "/" >> THEN "none" ELSE SubSeq(p, 1, Len(p) - 1)

\* Path::file_name with unwrap_or_default: "" when the path ends in ".."
FileName(p) ==
    IF p = << >> \/ p[Len(p)] = ".." \/ p[Len(p)] = "/" THEN "" ELSE p[Len(p)]

\* the locations from the root down to loc, loc included
Prefixes(loc) == { SubSeq(loc, 1, k) : k \in 0..Len(loc) }

IsPrefix(a, b) == Len(a) <= Len(b) /\ SubSeq(b, 1, Len(a)) = a

\* loc lies inside the output tree
InsideRoot(loc) == IsPrefix(OutputDir, loc)

(***************************************************************************)
(* The state of one run.                                                   *)
(***************************************************************************)
VARIABLES
    files,          \* index.files of the input document: [path, downloads, file_size]
    transport,      \* what the network and the local disk will answer for each file
    phase,          \* where main() is
    next_file,      \* stream::iter(0..len): the next index the stream yields (1-based)
    pc,             \* where the future of each file is
    offset,         \* the write position of the file handle each future holds
    results,        \* the Vec that collect() builds
    outcome,        \* history: what download_file returned for each file
    main_pb,        \* position of the aggregate progress bar
    current_file,   \* the shared "current file name"
    gets,           \* the URLs requested so far for each file
    dirs,           \* the directories that exist
    disk,           \* the regular files that exist, with their content
    disk0,          \* history: the regular files that existed before the run
    summary,        \* the summary text, one entry per line of the listing
    summary_writes, \* how many times fs::write(summary_path) was called
    stdout          \* what the process printed, the error main() returned included

vars == << files, transport, phase, next_file, pc, offset, results, outcome,
           main_pb, current_file, gets, dirs, disk, disk0, summary, summary_writes,
           stdout >>

N == Len(files)

\* the futures in buffer_unordered's in_progress_queue
InFlight == { i \in 1..N : pc[i] \in {"queued", "send", "create", "stream", "flush"} }

\* the k-th chunk of the body served for file i
Chunk(i, k) == << i, k >>

\* a write of one chunk at position off of a file holding content c
WriteAt(c, off, chunk) ==
    [k \in 1..(IF off + 1 > Len(c) THEN off + 1 ELSE Len(c)) |->
        IF k = off + 1 THEN chunk
        ELSE IF k <= Len(c) THEN c[k] ELSE << 0, 0 >>]

(***************************************************************************)
(* The inputs of a run: the index document and the behaviour of the        *)
(* network and of the local disk.                                          *)
(***************************************************************************)
\* the results of download_file
Ok == "Ok"
Errors == { "HttpStatus", "Transport", "LocalIO" }

\* where a download can fail; "ok" is a download that meets no failure
Fates == { "ok", "mkdir_io", "send_err", "http_404", "create_io",
           "stream_err", "write_io", "flush_io" }

ModNames == << "a.jar", "b.jar", "c.jar", "d.jar", "e.jar", "f.jar", "g.jar", "h.jar" >>

Url(i, k) == << "http", i, k >>

ModFile(path, downloads, size) ==
    [path |-> path, downloads |-> downloads, file_size |-> size]

\* a manifest of n well-formed entries with distinct paths under mods/
PlainFiles(n) ==
    [i \in 1..n |-> ModFile(<< "mods", ModNames[i] >>, << Url(i, 1) >>, 10 * i)]

\* the entries of the filesystem runs: plain ones, a second entry for the
\* path of the first, paths that leave the output tree, a path under the
\* summary file's name, and an entry without download URL
FilePool ==
    { ModFile(<< "mods", "a.jar" >>, << Url(1, 1) >>, 10),
      ModFile(<< "mods", "b.jar" >>, << Url(2, 1), Url(2, 2) >>, 20),
      ModFile(<< "mods", "a.jar" >>, << Url(3, 1) >>, 30),
      ModFile(<< "..", "..", "etc", "passwd" >>, << Url(4, 1) >>, 40),
      ModFile(<< "/", "etc", "passwd" >>, << Url(5, 1) >>, 50),
      ModFile(<< SummaryName, "x.jar" >>, << Url(6, 1) >>, 60),
      ModFile(<< "mods", "c.jar" >>, << >>, 70) }

\* the answer for one file: the failures the network and the disk may
\* produce for it ("ok": none), and the longest body the server sends
Script(fates, body) == [fates |-> fates, body |-> body]

\* the answers of the orchestration runs: an empty body, or status 404
Served == Script({ "ok" }, 0)
NotFound == Script({ "http_404" }, 0)

\* the answer of a server that accepts the request and never responds
Hung == Script({ "hang" }, 0)

\* the answer of the filesystem runs: anything may happen
FreeScript == Script(Fates, MaxChunks)

\* the pool entries with a plain path under mods/
IsPlain(f) == f.path[1] = "mods" /\ f.downloads # << >>

\* the disk before the run: the parent of the output directory exists, and
\* an earlier run may have left a file at mods/a.jar
StaleContent == << << 0, 1 >>, << 0, 2 >>, << 0, 3 >> >>
EmptyDisk == [loc \in {} |-> << >>]
StaleDisk == [loc \in { OutputDir \o << "mods", "a.jar" >> } |-> StaleContent]

InitRun(fs, ts, ds, d) ==
    /\ files = fs
    /\ transport = ts
    /\ phase = "load"
    /\ next_file = 1
    /\ pc = [i \in 1..Len(fs) |-> "pending"]
    /\ offset = [i \in 1..Len(fs) |-> 0]
    /\ results = << >>
    /\ outcome = [i \in 1..Len(fs) |-> "none"]
    /\ main_pb = 0
    /\ current_file = ""
    /\ gets = [i \in 1..Len(fs) |-> << >>]
    /\ dirs = ds
    /\ disk = d
    /\ disk0 = d
    /\ summary = << >>
    /\ summary_writes = 0
    /\ stdout = << >>

\* orchestration runs: up to MaxConcurrency + Overflow plain files, of which
\* the server serves MaxServed at most
InitOrchestration ==
    \E n \in 0..(MaxConcurrency + Overflow) :
      \E ts \in [1..n -> { Served, NotFound }] :
        /\ Cardinality({ i \in 1..n : ts[i] = Served }) <= MaxServed
        /\ InitRun(PlainFiles(n), ts, Prefixes(SubSeq(OutputDir, 1, 1)), EmptyDisk)

\* filesystem runs: one entry of the pool or a pair of entries, one of them
\* at most not plain, on an empty disk or on the disk an earlier run left
InitFilesystem ==
    \E fs \in [1..1 -> FilePool] \cup [1..2 -> FilePool] :
      \E d \in { EmptyDisk, StaleDisk } :
        /\ Cardinality({ i \in DOMAIN fs : ~IsPlain(fs[i]) }) <= 1
        /\ InitRun(fs, [i \in DOMAIN fs |-> FreeScript],
                   Prefixes(SubSeq(OutputDir, 1, 1))
                     \cup UNION { Prefixes(Parent(loc)) : loc \in DOMAIN d },
                   d)

Init == InitOrchestration \/ InitFilesystem

(***************************************************************************)
(* main(), lines 60-161: loading the index and preparing the output tree.  *)
(***************************************************************************)
ManifestErrors == { "read_error", "parse_error", "index_not_found" }

\* a mutant of LoadFail: the error is printed and the run goes on
LoadFailContinues ==
    /\ phase = "load"
    /\ \E e \in ManifestErrors : stdout' = Append(stdout, << "fatal", e >>)
    /\ phase' = "prepare"
    /\ UNCHANGED << files, transport, disk0, next_file, pc, offset, results, outcome, main_pb,
                    current_file, gets, dirs, disk, summary, summary_writes >>

\* the index cannot be read, parsed or found: `?` returns the error from
\* main.  The directory an archive is extracted to is not part of `disk`.
LoadFail ==
    /\ phase = "load"
    /\ \E e \in ManifestErrors : stdout' = Append(stdout, << "fatal", e >>)
    /\ phase' = "aborted"
    /\ UNCHANGED << files, transport, disk0, next_file, pc, offset, results, outcome, main_pb,
                    current_file, gets, dirs, disk, summary, summary_writes >>

\* serde accepts every document that has the fields, whatever `downloads` holds
Load ==
    /\ phase = "load"
    /\ phase' = "prepare"
    /\ UNCHANGED << files, transport, disk0, next_file, pc, offset, results, outcome,
                    main_pb, current_file, gets, dirs, disk, summary, summary_writes,
                    stdout >>

\* the listing of the summary: one line per file, in manifest order
SummaryLines == [i \in 1..N |-> << FileName(files[i].path), files[i].file_size >>]

\* create_dir_all(output_dir), the copy of the overrides, the summary text.
\* Either of the first two may fail, and `?` returns the error from main;
\* the files an overrides directory brings are files the disk holds when
\* the downloads start.
Prepare ==
    /\ phase = "prepare"
    /\ \E io_ok \in BOOLEAN :
         IF io_ok
         THEN /\ dirs' = dirs \cup Prefixes(OutputDir)
              /\ summary' = SummaryLines
              /\ phase' = "fetch"
              /\ UNCHANGED stdout
         ELSE /\ phase' = "aborted"
              /\ stdout' = Append(stdout, << "fatal", "io_error" >>)
              /\ UNCHANGED << dirs, summary >>
    /\ UNCHANGED << files, transport, disk0, next_file, pc, offset, results, outcome,
                    main_pb, current_file, gets, disk, summary_writes >>

(***************************************************************************)
(* main(), lines 169-207: the stream of futures under buffer_unordered.    *)
(***************************************************************************)
\* a mutant of CanAdmit: the queue takes one future more
CanAdmitOneMore ==
    /\ phase = "fetch"
    /\ next_file <= N
    /\ Cardinality(InFlight) <= MaxConcurrency

\* buffer_unordered fills its queue from the stream before it polls a future
CanAdmit ==
    /\ phase = "fetch"
    /\ next_file <= N
    /\ Cardinality(InFlight) < MaxConcurrency

\* a mutant of Admit: any file not yet admitted takes the free slot
AdmitAny ==
    /\ CanAdmit
    /\ \E k \in 1..N : pc[k] = "pending" /\ pc' = [pc EXCEPT ![k] = "queued"]
    /\ next_file' = next_file + 1
    /\ UNCHANGED << files, transport, disk0, phase, offset, results, outcome, main_pb,
                    current_file, gets, dirs, disk, summary, summary_writes, stdout >>

\* the stream yields the next index and its future enters the queue
Admit ==
    /\ CanAdmit
    /\ pc' = [pc EXCEPT ![next_file] = "queued"]
    /\ next_file' = next_file + 1
    /\ UNCHANGED << files, transport, disk0, phase, offset, results, outcome, main_pb,
                    current_file, gets, dirs, disk, summary, summary_writes, stdout >>

\* a mutant of CanPoll: futures are polled before the queue is refilled
CanPollAnytime(i) ==
    /\ phase = "fetch"
    /\ i \in InFlight

\* a mutant of CanPoll: only the oldest future of the queue is polled
CanPollOldest(i) ==
    /\ phase = "fetch"
    /\ ~CanAdmit
    /\ i \in InFlight
    /\ \A j \in InFlight : i <= j

\* a future may be polled: the queue is full or the stream is exhausted
CanPoll(i) ==
    /\ phase = "fetch"
    /\ ~CanAdmit
    /\ i \in InFlight

\* a mutant of Finish: the first error ends the stream, as try_collect does
FinishFailFast(i, r) ==
    /\ pc' = IF r = Ok THEN [pc EXCEPT ![i] = "done"] ELSE [j \in 1..N |-> "done"]
    /\ outcome' = [outcome EXCEPT ![i] = r]
    /\ main_pb' = main_pb + 1
    /\ results' = Append(results, r)

\* a mutant of Finish: only a success moves the progress bar
FinishCountsSuccess(i, r) ==
    /\ pc' = [pc EXCEPT ![i] = "done"]
    /\ outcome' = [outcome EXCEPT ![i] = r]
    /\ main_pb' = IF r = Ok THEN main_pb + 1 ELSE main_pb
    /\ results' = Append(results, r)

\* the future of file i returns r: main_pb.inc(1), and collect() pushes r
Finish(i, r) ==
    /\ pc' = [pc EXCEPT ![i] = "done"]
    /\ outcome' = [outcome EXCEPT ![i] = r]
    /\ main_pb' = main_pb + 1
    /\ results' = Append(results, r)

\* output_dir.join(&file.path) and the place it names
FilePath(i) == Join(<< "/" >> \o OutputDir, files[i].path)
FileLoc(i) == Resolve(FilePath(i))

\* create_dir_all fails when a component of the path is a regular file
MkdirBlocked(i) ==
    \E loc \in Prefixes(Resolve(Parent(FilePath(i)))) : loc \in DOMAIN disk

\* first poll of the future of file i, up to client.get(url).send().await:
\* an empty `downloads` panics at downloads[0]; a failing create_dir_all
\* returns at once
Start(i) ==
    /\ CanPoll(i)
    /\ pc[i] = "queued"
    /\ \A j \in 1..(i - 1) : pc[j] # "queued"
    /\ current_file' = FileName(files[i].path)
    /\ IF files[i].downloads = << >>
       THEN /\ phase' = "panicked"
            /\ UNCHANGED << pc, outcome, main_pb, results, gets, dirs >>
       ELSE \E f \in transport[i].fates :
              IF f = "mkdir_io" \/ MkdirBlocked(i)
              THEN /\ Finish(i, "LocalIO")
                   /\ UNCHANGED << phase, gets, dirs >>
              ELSE /\ dirs' = dirs \cup Prefixes(Resolve(Parent(FilePath(i))))
                   /\ gets' = [gets EXCEPT ![i] = Append(@, files[i].downloads[1])]
                   /\ pc' = [pc EXCEPT ![i] = "send"]
                   /\ UNCHANGED << phase, outcome, main_pb, results >>
    /\ UNCHANGED << files, transport, disk0, next_file, offset, disk, summary, summary_writes,
                    stdout >>

\* a mutant of Respond: after a failure the next URL of the file is tried
RespondFallback(i) ==
    /\ CanPoll(i)
    /\ pc[i] = "send"
    /\ \E f \in transport[i].fates \ { "hang" } :
         IF f \in { "send_err", "http_404" }
         THEN IF Len(gets[i]) < Len(files[i].downloads)
              THEN /\ gets' = [gets EXCEPT ![i] =
                                 Append(@, files[i].downloads[Len(gets[i]) + 1])]
                   /\ UNCHANGED << pc, outcome, main_pb, results >>
              ELSE /\ Finish(i, IF f = "send_err" THEN "Transport" ELSE "HttpStatus")
                   /\ UNCHANGED gets
         ELSE /\ pc' = [pc EXCEPT ![i] = "create"]
              /\ UNCHANGED << outcome, main_pb, results, gets >>
    /\ UNCHANGED << files, transport, disk0, phase, next_file, offset, current_file, dirs,
                    disk, summary, summary_writes, stdout >>

\* a mutant of Respond: the file is created before the status is looked at
RespondCreatesFirst(i) ==
    /\ CanPoll(i)
    /\ pc[i] = "send"
    /\ \E f \in transport[i].fates \ { "hang" } :
         IF f = "send_err"
         THEN /\ Finish(i, "Transport")
              /\ UNCHANGED disk
         ELSE IF f = "http_404"
         THEN /\ Finish(i, "HttpStatus")
              /\ disk' = [loc \in DOMAIN disk \cup { FileLoc(i) } |->
                            IF loc = FileLoc(i) THEN << >> ELSE disk[loc]]
         ELSE /\ pc' = [pc EXCEPT ![i] = "create"]
              /\ UNCHANGED << outcome, main_pb, results, disk >>
    /\ UNCHANGED << files, transport, disk0, phase, next_file, offset, current_file, gets,
                    dirs, summary, summary_writes, stdout >>

\* send() resolves: a transport error, a non-2xx status, or a response; it
\* never resolves when the server hangs
Respond(i) ==
    /\ CanPoll(i)
    /\ pc[i] = "send"
    /\ \E f \in transport[i].fates \ { "hang" } :
         IF f = "send_err" THEN Finish(i, "Transport")
         ELSE IF f = "http_404" THEN Finish(i, "HttpStatus")
         ELSE /\ pc' = [pc EXCEPT ![i] = "create"]
              /\ UNCHANGED << outcome, main_pb, results >>
    /\ UNCHANGED << files, transport, disk0, phase, next_file, offset, current_file, gets, dirs,
                    disk, summary, summary_writes, stdout >>

\* File::create fails on a directory
CreateBlocked(i) == FileLoc(i) \in dirs

\* a mutant of Created: the file is opened for writing without truncation
CreatedKeepsContent(i) ==
    /\ CanPoll(i)
    /\ pc[i] = "create"
    /\ \E f \in transport[i].fates :
         IF f = "create_io" \/ CreateBlocked(i)
         THEN /\ Finish(i, "LocalIO")
              /\ UNCHANGED << disk, offset >>
         ELSE /\ disk' = [loc \in DOMAIN disk \cup { FileLoc(i) } |->
                            IF loc \in DOMAIN disk THEN disk[loc] ELSE << >>]
              /\ offset' = [offset EXCEPT ![i] = 0]
              /\ pc' = [pc EXCEPT ![i] = "stream"]
              /\ UNCHANGED << outcome, main_pb, results >>
    /\ UNCHANGED << files, transport, disk0, phase, next_file, current_file, gets, dirs,
                    summary, summary_writes, stdout >>

\* File::create resolves: the file exists and is empty, the handle is at 0
Created(i) ==
    /\ CanPoll(i)
    /\ pc[i] = "create"
    /\ \E f \in transport[i].fates :
         IF f = "create_io" \/ CreateBlocked(i)
         THEN /\ Finish(i, "LocalIO")
              /\ UNCHANGED << disk, offset >>
         ELSE /\ disk' = [loc \in DOMAIN disk \cup { FileLoc(i) } |->
                            IF loc = FileLoc(i) THEN << >> ELSE disk[loc]]
              /\ offset' = [offset EXCEPT ![i] = 0]
              /\ pc' = [pc EXCEPT ![i] = "stream"]
              /\ UNCHANGED << outcome, main_pb, results >>
    /\ UNCHANGED << files, transport, disk0, phase, next_file, current_file, gets, dirs, summary,
                    summary_writes, stdout >>

\* stream.next() resolves: an error, a chunk (write_all puts it at the
\* handle's position, or fails), or the end of the body
NextChunk(i) ==
    /\ CanPoll(i)
    /\ pc[i] = "stream"
    /\ \E f \in transport[i].fates, more \in BOOLEAN :
         IF f = "stream_err"
         THEN /\ Finish(i, "Transport")
              /\ UNCHANGED << disk, offset >>
         ELSE IF more /\ offset[i] < transport[i].body
         THEN IF f = "write_io"
              THEN /\ Finish(i, "LocalIO")
                   /\ UNCHANGED << disk, offset >>
              ELSE /\ disk' = [disk EXCEPT ![FileLoc(i)] =
                                 WriteAt(@, offset[i], Chunk(i, offset[i] + 1))]
                   /\ offset' = [offset EXCEPT ![i] = @ + 1]
                   /\ UNCHANGED << pc, outcome, main_pb, results >>
         ELSE /\ pc' = [pc EXCEPT ![i] = "flush"]
              /\ UNCHANGED << disk, offset, outcome, main_pb, results >>
    /\ UNCHANGED << files, transport, disk0, phase, next_file, current_file, gets, dirs, summary,
                    summary_writes, stdout >>

\* file.flush() resolves
Flushed(i) ==
    /\ CanPoll(i)
    /\ pc[i] = "flush"
    /\ \E f \in transport[i].fates :
         IF f = "flush_io" THEN Finish(i, "LocalIO") ELSE Finish(i, Ok)
    /\ UNCHANGED << files, transport, disk0, phase, next_file, offset, current_file, gets, dirs,
                    disk, summary, summary_writes, stdout >>

(***************************************************************************)
(* main(), lines 209-239: the report.                                      *)
(***************************************************************************)
\* a mutant of CountOk: every result counts as a success
CountAll(rs) == Len(rs)

\* results.iter().filter(..).count()
CountOk(rs) == Cardinality({ k \in 1..Len(rs) : rs[k] = Ok })
CountErr(rs) == Cardinality({ k \in 1..Len(rs) : rs[k] # Ok })

RECURSIVE ErrorLines(_, _)
\* for (i, result) in results.iter().enumerate(): the line of every Err,
\* with the path of index_arc.files[i]
ErrorLines(rs, k) ==
    IF k > Len(rs) THEN << >>
    ELSE (IF rs[k] # Ok THEN << << "error", files[k].path, rs[k] >> >> ELSE << >>)
           \o ErrorLines(rs, k + 1)

SummaryLoc == Append(OutputDir, SummaryName)

\* what lines 222-232 print once the summary file is written
FailureReport(rs) ==
    (IF CountErr(rs) > 0
     THEN << << "failed", CountErr(rs), N >> >> \o ErrorLines(rs, 1)
     ELSE << >>)
      \o << << "summary_file" >> >>

\* a mutant of WriteSummary: no summary file for a run with failures
WriteSummaryIfClean(io_ok) ==
    IF CountErr(results) > 0
    THEN /\ stdout' = stdout \o << << "success", CountOk(results), N >> >>
                             \o FailureReport(results)
         /\ phase' = "wait_enter"
         /\ UNCHANGED << disk, summary_writes >>
    ELSE /\ summary_writes' = summary_writes + 1
         /\ disk' = [loc \in DOMAIN disk \cup { SummaryLoc } |->
                       IF loc = SummaryLoc THEN summary ELSE disk[loc]]
         /\ stdout' = stdout \o << << "success", CountOk(results), N >> >>
                             \o FailureReport(results)
         /\ phase' = "wait_enter"

RECURSIVE Downloaded(_, _)
\* the summary lines of the entries whose position in rs holds Ok
Downloaded(rs, k) ==
    IF k > Len(rs) THEN << >>
    ELSE (IF rs[k] = Ok THEN << summary[k] >> ELSE << >>) \o Downloaded(rs, k + 1)

\* a mutant of WriteSummary: the file lists only what was downloaded
WriteSummaryDownloaded(io_ok) ==
    /\ summary_writes' = summary_writes + 1
    /\ IF io_ok /\ SummaryLoc \notin dirs
       THEN /\ disk' = [loc \in DOMAIN disk \cup { SummaryLoc } |->
                          IF loc = SummaryLoc THEN Downloaded(results, 1) ELSE disk[loc]]
            /\ stdout' = stdout \o << << "success", CountOk(results), N >> >>
                                \o FailureReport(results)
            /\ phase' = "wait_enter"
       ELSE /\ stdout' = stdout \o << << "success", CountOk(results), N >>,
                                      << "fatal", "io_error" >> >>
            /\ phase' = "failed"
            /\ UNCHANGED disk

\* lines 211-232: the counts, fs::write(summary_path), the failure list.
\* fs::write fails on a directory, or as the disk decides (io_ok); `?` then
\* returns the error from main
WriteSummary(io_ok) ==
    /\ summary_writes' = summary_writes + 1
    /\ IF io_ok /\ SummaryLoc \notin dirs
       THEN /\ disk' = [loc \in DOMAIN disk \cup { SummaryLoc } |->
                          IF loc = SummaryLoc THEN summary ELSE disk[loc]]
            /\ stdout' = stdout \o << << "success", CountOk(results), N >> >>
                                \o FailureReport(results)
            /\ phase' = "wait_enter"
       ELSE /\ stdout' = stdout \o << << "success", CountOk(results), N >>,
                                      << "fatal", "io_error" >> >>
            /\ phase' = "failed"
            /\ UNCHANGED disk

\* collect() has returned: the stream is exhausted and the queue is empty
Report ==
    /\ phase = "fetch"
    /\ next_file > N
    /\ InFlight = {}
    /\ \E io_ok \in BOOLEAN : WriteSummary(io_ok)
    /\ UNCHANGED << files, transport, disk0, next_file, pc, offset, results, outcome,
                    main_pb, current_file, gets, dirs, summary >>

\* "Press Enter to exit..."
Exit ==
    /\ phase = "wait_enter"
    /\ phase' = "exit"
    /\ UNCHANGED << files, transport, disk0, next_file, pc, offset, results, outcome,
                    main_pb, current_file, gets, dirs, disk, summary, summary_writes,
                    stdout >>

Next ==
    \/ LoadFail
    \/ Load
    \/ Prepare
    \/ Admit
    \/ \E i \in 1..N : Start(i)
    \/ \E i \in 1..N : Respond(i)
    \/ \E i \in 1..N : Created(i)
    \/ \E i \in 1..N : NextChunk(i)
    \/ \E i \in 1..N : Flushed(i)
    \/ Report
    \/ Exit

Spec == Init /\ [][Next]_vars

\* orchestration runs against a server that never answers the request for
\* one of the files; it refuses all but MaxServed of the requests
InitHang ==
    \E n \in 1..(MaxConcurrency + Overflow) :
      \E ts \in [1..n -> { Served, NotFound, Hung }] :
        /\ Cardinality({ i \in 1..n : ts[i] = Hung }) = 1
        /\ Cardinality({ i \in 1..n : ts[i] # NotFound }) <= MaxServed
        /\ InitRun(PlainFiles(n), ts, Prefixes(SubSeq(OutputDir, 1, 1)), EmptyDisk)

\* runs of one plain file to which anything may happen
InitStream ==
    \E fs \in [1..1 -> { f \in FilePool : IsPlain(f) }] :
      InitRun(fs, [i \in DOMAIN fs |-> FreeScript], Prefixes(SubSeq(OutputDir, 1, 1)),
              EmptyDisk)

\* the runtime keeps polling: main's task runs while it can take a step, and
\* a future whose I/O is ready is woken and polled again
FairSpec == (InitHang \/ InitStream) /\ [][Next]_vars /\ WF_vars(Next)

(***************************************************************************)
(* Properties.                                                             *)
(***************************************************************************)
\* collect() has returned and the report statements have run
AfterFetch == { "wait_enter", "failed", "exit" }

Failed(i) == outcome[i] \in Errors
Succeeded(i) == outcome[i] = Ok

\* C1: when the fetch phase is over the outcome sequence has exactly N
\* entries and entry i is the outcome of manifest entry i, whatever the
\* order in which the downloads completed.
C1_OutcomesInManifestOrder ==
    phase \in AfterFetch =>
        /\ Len(results) = N
        /\ \A i \in 1..N : results[i] = outcome[i]

\* C2: at most maxConcurrency downloads are admitted and not yet completed,
\* in every reachable state.
C2_InFlightBounded == Cardinality(InFlight) <= MaxConcurrency

\* the queue is full while a file still waits for a slot
C2_Witness ==
    /\ Cardinality(InFlight) = MaxConcurrency
    /\ next_file <= N
    /\ \A i \in InFlight : pc[i] # "queued"

\* C3: the failure of one download changes the position of no other
\* download and does not end the fetch phase; when the fetch phase is over
\* every file has been admitted and has completed, and every file the
\* server served has the outcome Ok.
C3_FailureIsolation ==
    /\ [][\A i \in 1..N :
            (outcome[i] = "none" /\ outcome'[i] \in Errors) =>
                /\ phase' = "fetch"
                /\ \A j \in (1..N) \ { i } :
                     pc'[j] = pc[j] /\ outcome'[j] = outcome[j]]_vars
    /\ [](phase \in AfterFetch =>
            \A i \in 1..N :
                /\ pc[i] = "done"
                /\ outcome[i] # "none"
                /\ (transport[i] = Served => Succeeded(i)))

\* a run of more files than slots ends with the first file failed and served
\* files, the last one among them, downloaded
C3_Witness ==
    /\ phase = "wait_enter"
    /\ N > MaxConcurrency
    /\ Failed(1)
    /\ Succeeded(N)
    /\ Cardinality({ i \in 1..N : Succeeded(i) }) = MaxServed

\* C4: the completed counter never decreases, moves by one exactly when a
\* download returns (Ok or Err), always equals the number of downloads that
\* have returned, and is N when the fetch phase is over.
C4_CompletedCounter ==
    /\ [][/\ main_pb' >= main_pb
          /\ main_pb' - main_pb =
               Cardinality({ i \in 1..N : outcome[i] = "none" /\ outcome'[i] # "none" })
          /\ \A i \in 1..N : outcome[i] # "none" => outcome'[i] = outcome[i]]_vars
    /\ [](/\ main_pb = Cardinality({ i \in 1..N : outcome[i] # "none" })
          /\ main_pb = Cardinality({ i \in 1..N : pc[i] = "done" })
          /\ (phase \in AfterFetch => main_pb = N))

\* a run of more files than slots is over, with successes and failures
C4_Witness ==
    /\ phase = "exit"
    /\ N > MaxConcurrency
    /\ main_pb = N
    /\ \E i, j \in 1..N : Failed(i) /\ Succeeded(j)

\* the directories and files the run may touch: the output tree and the
\* directories above it
InTree(loc) == InsideRoot(loc) \/ loc \in Prefixes(OutputDir)

\* C5: a file whose path leaves the output tree is rejected before any
\* directory is created and before any request or write: its outcome is a
\* failure, and no directory or file outside the output tree ever exists.
C5_PathEscapeRejected ==
    /\ \A i \in 1..N :
         ~InsideRoot(FileLoc(i)) => /\ outcome[i] # Ok
                                    /\ gets[i] = << >>
    /\ \A loc \in dirs : InTree(loc)
    /\ \A loc \in DOMAIN disk : InTree(loc)

RECURSIVE FailuresOf(_)
\* one line per failed file from index k on, in manifest order, each with
\* the path of the file and its own error
FailuresOf(k) ==
    IF k > N THEN << >>
    ELSE (IF Failed(k) THEN << << "error", files[k].path, outcome[k] >> >> ELSE << >>)
           \o FailuresOf(k + 1)

IsErrorLine(line) == line[1] = "error"

\* C6: the failure list of a finished report has one line per failed file,
\* in manifest order, each pairing the path of a file with the error of the
\* download of that same file.
C6_FailureListByPath ==
    phase \in { "wait_enter", "exit" } =>
        SelectSeq(stdout, IsErrorLine) = FailuresOf(1)

\* C7: a manifest with an entry whose downloads list is empty is rejected
\* when it is loaded: the run leaves the load phase only by aborting, no
\* download starts and none panics.
C7_EmptyDownloadsRejected ==
    (\E i \in 1..N : files[i].downloads = << >>) =>
        /\ phase \in { "load", "aborted" }
        /\ \A i \in 1..N : pc[i] = "pending"

\* C8: a run whose downloads have all returned gets to the report: the
\* success count out of N is printed and, if a download failed, the list of
\* the failures is printed too.
C8_ReportAlwaysComplete ==
    phase \in AfterFetch =>
        /\ \E k \in 1..Len(stdout) : stdout[k] = << "success", CountOk(results), N >>
        /\ (CountErr(results) > 0 =>
              /\ \E k \in 1..Len(stdout) : stdout[k] = << "failed", CountErr(results), N >>
              /\ Len(SelectSeq(stdout, IsErrorLine)) = CountErr(results))

\* C9: fs::write of the summary file is called exactly once in every run
\* whose fetch phase is over and in no other, whatever the outcomes of the
\* downloads; the step that ends the fetch phase makes the call, and when
\* the call succeeds the file holds the summary text.
C9_SummaryWrittenOnce ==
    /\ [][(phase = "fetch" /\ phase' \in AfterFetch) =>
            summary_writes' = summary_writes + 1]_vars
    /\ [](/\ summary_writes = (IF phase \in AfterFetch THEN 1 ELSE 0)
          /\ (phase \in { "wait_enter", "exit" } =>
                /\ SummaryLoc \in DOMAIN disk
                /\ disk[SummaryLoc] = summary))

\* the summary file is there after a run in which every download failed
C9_Witness ==
    /\ phase = "exit"
    /\ N > 1
    /\ \A i \in 1..N : Failed(i)
    /\ summary_writes = 1
    /\ SummaryLoc \in DOMAIN disk

\* main() returned a manifest-level error
ManifestErrorRaised ==
    \E k \in 1..Len(stdout) : \E e \in ManifestErrors : stdout[k] = << "fatal", e >>

\* C10: after a manifest-level error the run is aborted: no download was
\* admitted, no request was sent, no result was recorded, and the output
\* tree and every destination of a manifest entry are as they were before
\* the run.
C10_ManifestErrorAborts ==
    ManifestErrorRaised =>
        /\ phase = "aborted"
        /\ next_file = 1
        /\ \A i \in 1..N : pc[i] = "pending" /\ gets[i] = << >>
        /\ results = << >>
        /\ disk \in { EmptyDisk, StaleDisk }
        /\ \A loc \in dirs : loc \in Prefixes(OutputDir \o << "mods" >>)

\* a manifest of several files was not loaded
C10_Witness ==
    /\ ManifestErrorRaised
    /\ phase = "aborted"
    /\ N > 1

HasLine(line) == \E k \in 1..Len(stdout) : stdout[k] = line

\* C11: the success count printed is the number of files whose download
\* returned Ok, the failure count is the number of files whose download
\* returned an error (and is what the failure header prints), and the two
\* add up to N, whatever the order of completion.
C11_CountsMatchOutcomes ==
    phase \in AfterFetch =>
        /\ HasLine(<< "success", Cardinality({ i \in 1..N : Succeeded(i) }), N >>)
        /\ CountErr(results) = Cardinality({ i \in 1..N : Failed(i) })
        /\ CountOk(results) + CountErr(results) = N
        /\ \A k \in 1..Len(stdout) :
             stdout[k][1] = "failed" =>
                stdout[k] = << "failed", Cardinality({ i \in 1..N : Failed(i) }), N >>
        /\ (phase # "failed" /\ (\E i \in 1..N : Failed(i)) =>
              HasLine(<< "failed", Cardinality({ i \in 1..N : Failed(i) }), N >>))

\* one download succeeded, the other met a transport error: 1/2
C11_Witness ==
    /\ phase = "exit"
    /\ N = 2
    /\ outcome = << Ok, "Transport" >>
    /\ HasLine(<< "success", 1, 2 >>)
    /\ HasLine(<< "failed", 1, 2 >>)

\* the chunks file i has received
Body(i) == [k \in 1..offset[i] |-> Chunk(i, k)]

\* no other manifest entry names the place of file i
UniquePath(i) == \A j \in (1..N) \ { i } : FileLoc(j) # FileLoc(i)

\* C12: when two entries of a manifest name the same path and both
\* downloads succeed, the file ends with the bytes of the later entry.
C12_LastWriteWins ==
    phase \in AfterFetch =>
        \A i, j \in 1..N :
            (i < j /\ FileLoc(i) = FileLoc(j) /\ Succeeded(i) /\ Succeeded(j)) =>
                disk[FileLoc(j)] = Body(j)

\* C13: after a successful download to a path no other entry names, the
\* file holds exactly the chunks received, in order, whatever it held
\* before the run; and a download is never refused because the directories
\* of its path exist already.
C13_FileHoldsBody ==
    /\ \A i \in 1..N :
         (Succeeded(i) /\ UniquePath(i)) =>
            /\ FileLoc(i) \in DOMAIN disk
            /\ disk[FileLoc(i)] = Body(i)
    /\ \A i \in 1..N :
         (pc[i] = "queued" /\ files[i].downloads # << >>
            /\ Prefixes(Resolve(Parent(FilePath(i)))) \subseteq dirs) => ~MkdirBlocked(i)

\* a file an earlier run left, longer than the new body, was downloaded again
C13_Witness ==
    /\ phase = "exit"
    /\ N = 1
    /\ Succeeded(1)
    /\ FileLoc(1) \in DOMAIN disk0
    /\ offset[1] > 0
    /\ Len(disk0[FileLoc(1)]) > offset[1]
    /\ disk[FileLoc(1)] = Body(1)

Admitted(i) == pc[i] # "pending"
Started(i) == pc[i] \notin { "pending", "queued" }

\* C14: files are admitted, and their downloads started, in manifest order:
\* a file is never admitted or started before a file that precedes it.
C14_AdmittedInManifestOrder ==
    \A i, j \in 1..N :
        i < j => /\ (Admitted(j) => Admitted(i))
                 /\ (Started(j) => Started(i))

\* the last of more files than slots is being downloaded next to its
\* predecessor, after the first has completed
C14_Witness ==
    /\ N > MaxConcurrency
    /\ pc[N] = "send"
    /\ pc[N - 1] = "send"
    /\ pc[1] = "done"

Min(a, b) == IF a < b THEN a ELSE b

\* C15 as stated: whenever downloads are in flight and the queue has been
\* refilled, exactly maxConcurrency of them are in flight.
C15_ExactlyMaxInFlight ==
    (phase = "fetch" /\ ~CanAdmit /\ InFlight # {}) =>
        Cardinality(InFlight) = MaxConcurrency

\* C15 as amended: a free slot is filled with the next file in manifest order
\* before any download goes on, so that whenever a download can go on the
\* number in flight is maxConcurrency or, if fewer files are left to
\* complete, the number of those.
C15_SlotsKeptBusy ==
    /\ [][(phase = "fetch" /\ CanAdmit) =>
            /\ next_file' = next_file + 1
            /\ pc' = [pc EXCEPT ![next_file] = "queued"]]_vars
    /\ []((phase = "fetch" /\ ~CanAdmit) =>
            Cardinality(InFlight) =
                Min(MaxConcurrency, Cardinality({ i \in 1..N : pc[i] # "done" })))

\* the slot a completed download left was given to the file that waited
C15_Witness ==
    /\ phase = "fetch"
    /\ ~CanAdmit
    /\ N > MaxConcurrency
    /\ main_pb = 1
    /\ Cardinality(InFlight) = MaxConcurrency

\* C17: a file is fetched by one GET at most, to downloads[0]; a download
\* that got as far as the request sent exactly that one, also when it failed.
C17_SingleGetToFirstUrl ==
    \A i \in 1..N :
        /\ Len(gets[i]) <= 1
        /\ (Len(gets[i]) = 1 => gets[i][1] = files[i].downloads[1])
        /\ (outcome[i] \in { Ok, "HttpStatus", "Transport" } => Len(gets[i]) = 1)

\* a file with two URLs failed after one request
C17_Witness ==
    /\ phase = "exit"
    /\ \E i \in 1..N :
         /\ Len(files[i].downloads) = 2
         /\ outcome[i] = "HttpStatus"
         /\ gets[i] = << files[i].downloads[1] >>

\* the listing a manifest determines: name and declared size of every file
Listing == [i \in 1..N |-> << files[i].path[Len(files[i].path)], files[i].file_size >>]

\* C18: the summary text is a function of the manifest alone: from the
\* fetch phase on it is the listing of all files in manifest order, and the
\* summary file holds that listing, whatever the outcomes and the order of
\* completion were.
C18_SummaryFromManifest ==
    /\ (phase \in { "fetch", "panicked" } \cup AfterFetch => summary = Listing)
    /\ (phase \in { "wait_enter", "exit" } =>
          /\ SummaryLoc \in DOMAIN disk
          /\ disk[SummaryLoc] = Listing)

\* the summary of a run with a failure and a success lists both files
C18_Witness ==
    /\ phase = "exit"
    /\ N = 2
    /\ Failed(1)
    /\ Succeeded(2)
    /\ Len(disk[SummaryLoc]) = 2

\* C19: a download that fails before File::create has resolved (at
\* create_dir_all, at send, at the status check, at File::create) leaves
\* every file as it was; so after a non-2xx status the place of the file,
\* if no other entry names it, holds what it held before the run, or nothing.
C19_EarlyFailureKeepsFile ==
    /\ [][\A i \in 1..N :
            (pc[i] \in { "queued", "send", "create" } /\ outcome'[i] \in Errors) =>
                disk' = disk]_vars
    /\ [](\A i \in 1..N :
            (outcome[i] = "HttpStatus" /\ UniquePath(i)) =>
                IF FileLoc(i) \in DOMAIN disk0
                THEN FileLoc(i) \in DOMAIN disk /\ disk[FileLoc(i)] = disk0[FileLoc(i)]
                ELSE FileLoc(i) \notin DOMAIN disk)

\* the file an earlier run left is intact after a 404
C19_Witness ==
    /\ phase = "exit"
    /\ N = 1
    /\ outcome[1] = "HttpStatus"
    /\ FileLoc(1) \in DOMAIN disk0
    /\ disk[FileLoc(1)] = StaleContent

OneHung == Cardinality({ i \in 1..N : transport[i] = Hung }) = 1
OthersDone == \A i \in 1..N : transport[i] # Hung => pc[i] = "done"

\* C16: a fetch that never returns holds one slot and no more: when the
\* request of one file hangs forever, every other file is eventually admitted
\* and completes, the counter reaches N - 1, and while files wait the other
\* maxConcurrency - 1 slots stay in use.
C16_HungFetchHoldsOneSlot ==
    /\ (OneHung /\ phase = "fetch") ~> (OthersDone /\ main_pb = N - 1)
    /\ [](\A h \in 1..N :
            (transport[h] = Hung /\ pc[h] = "send" /\ phase = "fetch" /\ ~CanAdmit) =>
                Cardinality(InFlight \ { h }) = Min(MaxConcurrency - 1, N - 1 - main_pb))

\* the first of more files than slots hangs, and all the others are done
C16_Witness ==
    /\ N > MaxConcurrency
    /\ transport[1] = Hung
    /\ pc[1] = "send"
    /\ InFlight = { 1 }
    /\ OthersDone
    /\ main_pb = N - 1

====
